---- MODULE Spec2Model ----
(***************************************************************************)
(* Viseme-driven facial animation of the avatar platform: the seven avatar *)
(* components (Avatar, HumanAvatar, RealisticAvatar, PhotoRealisticAvatar, *)
(* VideoStyleAvatar, ImageBasedAvatar, Face3DAvatar) and the page that     *)
(* feeds them (visemes, isPlaying, currentTime).                           *)
(*                                                                         *)
(* Numbers.  Shape weights are fixed-point integers in hundredths          *)
(* (0.85 is 85); a product is rounded to the nearest hundredth, as the     *)
(* floating-point operations of the code round to the nearest double.      *)
(* Event times are integers; a frame's elapsed time is in 60ths of a      *)
(* second.  NaN and a read of a missing property                           *)
(* (undefined) are two reserved values outside the range of the weights.   *)
(***************************************************************************)
EXTENDS Integers, Sequences, FiniteSets, TLC

VARIABLES
  variant,        \* which avatar component is mounted
  visemes,        \* prop: the timeline
  isPlaying,      \* prop
  currentTime,    \* prop
  currentViseme,  \* useState currentViseme (Face3DAvatar: currentVisemeId)
  target,         \* targetShape / targetParams / targetMouthRef / targetWeights
  current,        \* currentShape / currentParams / currentMouthRef / currentWeights
  loaded,         \* Face3DAvatar: the mesh is loaded; ImageBasedAvatar: faceImageRef is set
  last            \* the operation that produced this state, and what it read

avatarVars == <<variant, visemes, isPlaying, currentTime, currentViseme,
                target, current, loaded, last>>

\* the page (Home) around the component; its visemes, isPlaying and currentTime
\* are the page's currentVisemes, isPlaying and audioCurrentTime
VARIABLES
  isProcessing,   \* useState isProcessing
  messages,       \* useState messages: role and kind of content
  request,        \* where the running handleSubmit is: "idle", "fetch", "play"
  audios          \* the Audio elements created so far, each with the timeline of
                  \* its utterance; audioRef is the last one

hostVars == <<isProcessing, messages, request, audios>>

\* the idle motion of VideoStyleAvatar and ImageBasedAvatar
VARIABLES
  now,            \* Date.now(), in units of 500 ms since the component was mounted
  idle            \* blinkRef / blinkState (value, nextBlink) and, in
                  \* VideoStyleAvatar, microMovementRef.phase; blinkAt records
                  \* the time of the latest blink (-1: none yet), blinks
                  \* counts the blinks and frames the calls of render

idleVars == <<now, idle>>

\* a second component of the same kind, fed the same props and the same frames
\* on a machine whose clock is ahead by skew and that draws its own random numbers
VARIABLES
  twin            \* its currentViseme, target, current and idle refs, and skew

twinVars == <<twin>>

\* the route POST /api/text-to-speech
VARIABLES
  api             \* the requests being handled and the log of (body, response)

apiVars == <<api>>

\* React runs the effects of a commit after the browser has painted
VARIABLES
  pendingEffects  \* how many rounds of effects the latest commit still owes

effectVars == <<pendingEffects>>

\* the geometry that Face3DAvatar loads from /facecap.glb
VARIABLES
  mesh            \* the names of its morph targets, in index order

meshVars == <<mesh>>

\* which page is mounted, for the chat of part_000 and part_001
VARIABLES
  page            \* name: "part_000", the page without avatar, or "part_001",
                  \* the page with the avatar and the audio; attempts counts
                  \* the user's tries to send, and inputText is the content of
                  \* the input field at the latest try

pageVars == <<page>>

\* the component VideoAvatar
VARIABLES
  video           \* its props videoSrc and autoPlay, its state hasError and
                  \* videoReady, and the state of the <video> element

videoVars == <<video>>

\* the animation loop of a canvas component
VARIABLES
  raf             \* the pending requestAnimationFrame callbacks, the ref that
                  \* holds the latest id, and whether the component is mounted

loopVars == <<raf>>

otherVars == <<meshVars, pageVars, videoVars, loopVars>>

\* all but the component's own variables; all but the component's and the page's
beyondAvatar == <<hostVars, idleVars, twinVars, apiVars, effectVars, otherVars>>
beyondHost == <<idleVars, twinVars, apiVars, effectVars, otherVars>>

vars == <<avatarVars, hostVars, idleVars, twinVars, apiVars, effectVars, otherVars>>

----------------------------------------------------------------------------
(* Bounds of the model *)

\* SpecResolve: events per timeline, largest event time, largest duration
MaxEvents == 2
MaxTime == 2
MaxDur == 2
\* Spec: largest value of the playback clock, longest frame (in 60ths of a second)
MaxClock == 3
MaxFrames == 2
\* SpecHost: submits of one session
MaxSubmits == 2
\* SpecIdle: largest value of the wall clock (units of 500 ms), frames rendered
MaxNow == 9
MaxTicks == 7
\* SpecTwin: largest skew of the second clock, frames rendered
MaxSkew == 2
MaxTwinTicks == 4
\* SpecApi: requests of one run
MaxRequests == 2
MaxTargets == 3
MaxBlinkTicks == 10
MaxAttempts == 3
MaxSources == 2
MaxCallbacks == 5
MaxRestarts == 2

----------------------------------------------------------------------------
(* Values *)

\* the result of arithmetic on undefined
NaN == 9999
\* the value of a property that an object does not have
Undef == 9998
\* the value of a table lookup with a key the table does not have
undefined == [undefined |-> TRUE]

IsNumber(x) == x # NaN /\ x # Undef

Abs(x) == IF x < 0 THEN -x ELSE x

\* x / d rounded to the nearest integer (d > 0)
RoundDiv(x, d) ==
  IF x >= 0 THEN (2 * x + d) \div (2 * d) ELSE -((2 * (-x) + d) \div (2 * d))

\* a || b on objects
Or(a, b) == IF a = undefined THEN b ELSE a

\* { ...a } read through the parameter names ps : spreading undefined gives {}
Spread(a, ps) == IF a = undefined THEN [p \in ps |-> Undef] ELSE a

----------------------------------------------------------------------------
(* The mapping tables, weights in hundredths *)

VISEME_SHAPES(code) ==
  CASE code = "sil" -> [mouthWidth |-> 30, mouthHeight |-> 5, mouthOpen |-> 0]
    [] code = "PP" -> [mouthWidth |-> 15, mouthHeight |-> 2, mouthOpen |-> 0]
    [] code = "FF" -> [mouthWidth |-> 35, mouthHeight |-> 10, mouthOpen |-> 10]
    [] code = "TH" -> [mouthWidth |-> 30, mouthHeight |-> 15, mouthOpen |-> 20]
    [] code = "DD" -> [mouthWidth |-> 25, mouthHeight |-> 12, mouthOpen |-> 15]
    [] code = "kk" -> [mouthWidth |-> 28, mouthHeight |-> 18, mouthOpen |-> 20]
    [] code = "CH" -> [mouthWidth |-> 20, mouthHeight |-> 20, mouthOpen |-> 15]
    [] code = "SS" -> [mouthWidth |-> 22, mouthHeight |-> 8, mouthOpen |-> 10]
    [] code = "nn" -> [mouthWidth |-> 25, mouthHeight |-> 10, mouthOpen |-> 10]
    [] code = "RR" -> [mouthWidth |-> 28, mouthHeight |-> 20, mouthOpen |-> 25]
    [] code = "aa" -> [mouthWidth |-> 35, mouthHeight |-> 40, mouthOpen |-> 50]
    [] code = "E" -> [mouthWidth |-> 38, mouthHeight |-> 25, mouthOpen |-> 30]
    [] code = "I" -> [mouthWidth |-> 35, mouthHeight |-> 15, mouthOpen |-> 20]
    [] code = "O" -> [mouthWidth |-> 25, mouthHeight |-> 35, mouthOpen |-> 40]
    [] code = "U" -> [mouthWidth |-> 18, mouthHeight |-> 28, mouthOpen |-> 35]
    [] OTHER -> undefined

VISEME_MOUTH_PARAMS(code) ==
  CASE code = "sil" -> [openness |-> 0, width |-> 50, lipRound |-> 50]
    [] code = "PP" -> [openness |-> 2, width |-> 30, lipRound |-> 20]
    [] code = "FF" -> [openness |-> 10, width |-> 60, lipRound |-> 30]
    [] code = "TH" -> [openness |-> 15, width |-> 55, lipRound |-> 40]
    [] code = "DD" -> [openness |-> 20, width |-> 50, lipRound |-> 50]
    [] code = "kk" -> [openness |-> 25, width |-> 50, lipRound |-> 50]
    [] code = "CH" -> [openness |-> 20, width |-> 40, lipRound |-> 30]
    [] code = "SS" -> [openness |-> 10, width |-> 55, lipRound |-> 40]
    [] code = "nn" -> [openness |-> 15, width |-> 50, lipRound |-> 50]
    [] code = "RR" -> [openness |-> 30, width |-> 45, lipRound |-> 40]
    [] code = "aa" -> [openness |-> 70, width |-> 60, lipRound |-> 60]
    [] code = "E" -> [openness |-> 40, width |-> 65, lipRound |-> 70]
    [] code = "I" -> [openness |-> 25, width |-> 70, lipRound |-> 80]
    [] code = "O" -> [openness |-> 50, width |-> 35, lipRound |-> 20]
    [] code = "U" -> [openness |-> 35, width |-> 25, lipRound |-> 10]
    [] OTHER -> undefined

REALISTIC_VISEME_PARAMS(code) ==
  CASE code = "sil" -> [mouthOpen |-> 0, lipSpread |-> 0, jawDrop |-> 0, tongueOut |-> 0]
    [] code = "PP" -> [mouthOpen |-> 0, lipSpread |-> -30, jawDrop |-> 0, tongueOut |-> 0]
    [] code = "FF" -> [mouthOpen |-> 10, lipSpread |-> 20, jawDrop |-> 5, tongueOut |-> 0]
    [] code = "TH" -> [mouthOpen |-> 15, lipSpread |-> 10, jawDrop |-> 8, tongueOut |-> 20]
    [] code = "DD" -> [mouthOpen |-> 20, lipSpread |-> 0, jawDrop |-> 10, tongueOut |-> 10]
    [] code = "kk" -> [mouthOpen |-> 15, lipSpread |-> 0, jawDrop |-> 12, tongueOut |-> 0]
    [] code = "CH" -> [mouthOpen |-> 10, lipSpread |-> -20, jawDrop |-> 5, tongueOut |-> 0]
    [] code = "SS" -> [mouthOpen |-> 8, lipSpread |-> 30, jawDrop |-> 2, tongueOut |-> 5]
    [] code = "nn" -> [mouthOpen |-> 12, lipSpread |-> 10, jawDrop |-> 6, tongueOut |-> 10]
    [] code = "RR" -> [mouthOpen |-> 25, lipSpread |-> -10, jawDrop |-> 15, tongueOut |-> 5]
    [] code = "aa" -> [mouthOpen |-> 60, lipSpread |-> 40, jawDrop |-> 40, tongueOut |-> 0]
    [] code = "E" -> [mouthOpen |-> 30, lipSpread |-> 50, jawDrop |-> 20, tongueOut |-> 0]
    [] code = "I" -> [mouthOpen |-> 15, lipSpread |-> 70, jawDrop |-> 10, tongueOut |-> 0]
    [] code = "O" -> [mouthOpen |-> 40, lipSpread |-> -40, jawDrop |-> 25, tongueOut |-> 0]
    [] code = "U" -> [mouthOpen |-> 30, lipSpread |-> -50, jawDrop |-> 20, tongueOut |-> 0]
    [] OTHER -> undefined

MOUTH_PARAMS(code) ==
  CASE code = "sil" -> [open |-> 0, spread |-> 0, round |-> 0]
    [] code = "PP" -> [open |-> 0, spread |-> -20, round |-> 10]
    [] code = "FF" -> [open |-> 10, spread |-> 10, round |-> 0]
    [] code = "TH" -> [open |-> 15, spread |-> 5, round |-> 0]
    [] code = "DD" -> [open |-> 20, spread |-> 0, round |-> 0]
    [] code = "kk" -> [open |-> 15, spread |-> 0, round |-> 0]
    [] code = "CH" -> [open |-> 10, spread |-> -15, round |-> 20]
    [] code = "SS" -> [open |-> 8, spread |-> 20, round |-> 0]
    [] code = "nn" -> [open |-> 12, spread |-> 0, round |-> 0]
    [] code = "RR" -> [open |-> 20, spread |-> -10, round |-> 15]
    [] code = "aa" -> [open |-> 70, spread |-> 30, round |-> 0]
    [] code = "E" -> [open |-> 35, spread |-> 40, round |-> 0]
    [] code = "I" -> [open |-> 20, spread |-> 60, round |-> 0]
    [] code = "O" -> [open |-> 50, spread |-> -30, round |-> 60]
    [] code = "U" -> [open |-> 35, spread |-> -40, round |-> 70]
    [] OTHER -> undefined

MOUTH_SHAPES(code) ==
  CASE code = "sil" -> [openness |-> 0, width |-> 100, roundness |-> 0, upperLip |-> 0, lowerLip |-> 0]
    [] code = "PP" -> [openness |-> 0, width |-> 80, roundness |-> 20, upperLip |-> 10, lowerLip |-> 10]
    [] code = "FF" -> [openness |-> 15, width |-> 110, roundness |-> 0, upperLip |-> -10, lowerLip |-> 20]
    [] code = "TH" -> [openness |-> 20, width |-> 100, roundness |-> 0, upperLip |-> 0, lowerLip |-> 15]
    [] code = "DD" -> [openness |-> 25, width |-> 100, roundness |-> 0, upperLip |-> 0, lowerLip |-> 10]
    [] code = "kk" -> [openness |-> 20, width |-> 95, roundness |-> 10, upperLip |-> 0, lowerLip |-> 10]
    [] code = "CH" -> [openness |-> 15, width |-> 75, roundness |-> 40, upperLip |-> 10, lowerLip |-> 15]
    [] code = "SS" -> [openness |-> 10, width |-> 120, roundness |-> 0, upperLip |-> 0, lowerLip |-> 0]
    [] code = "nn" -> [openness |-> 15, width |-> 100, roundness |-> 0, upperLip |-> 0, lowerLip |-> 5]
    [] code = "RR" -> [openness |-> 30, width |-> 85, roundness |-> 30, upperLip |-> 0, lowerLip |-> 10]
    [] code = "aa" -> [openness |-> 85, width |-> 120, roundness |-> 0, upperLip |-> -10, lowerLip |-> 50]
    [] code = "E" -> [openness |-> 45, width |-> 130, roundness |-> 0, upperLip |-> -5, lowerLip |-> 25]
    [] code = "I" -> [openness |-> 25, width |-> 140, roundness |-> 0, upperLip |-> 0, lowerLip |-> 10]
    [] code = "O" -> [openness |-> 60, width |-> 70, roundness |-> 70, upperLip |-> 15, lowerLip |-> 30]
    [] code = "U" -> [openness |-> 40, width |-> 60, roundness |-> 85, upperLip |-> 20, lowerLip |-> 25]
    [] OTHER -> undefined

VISEME_CONFIG(code) ==
  CASE code = "sil" -> [jaw |-> 0, lips |-> 0, open |-> 0]
    [] code = "PP" -> [jaw |-> 0, lips |-> 30, open |-> 0]
    [] code = "FF" -> [jaw |-> 10, lips |-> 10, open |-> 15]
    [] code = "TH" -> [jaw |-> 15, lips |-> 0, open |-> 20]
    [] code = "DD" -> [jaw |-> 20, lips |-> 0, open |-> 25]
    [] code = "kk" -> [jaw |-> 15, lips |-> 0, open |-> 20]
    [] code = "CH" -> [jaw |-> 10, lips |-> 40, open |-> 15]
    [] code = "SS" -> [jaw |-> 5, lips |-> 20, open |-> 10]
    [] code = "nn" -> [jaw |-> 10, lips |-> 0, open |-> 15]
    [] code = "RR" -> [jaw |-> 20, lips |-> 35, open |-> 30]
    [] code = "aa" -> [jaw |-> 80, lips |-> 0, open |-> 85]
    [] code = "E" -> [jaw |-> 40, lips |-> 10, open |-> 45]
    [] code = "I" -> [jaw |-> 20, lips |-> 50, open |-> 25]
    [] code = "O" -> [jaw |-> 55, lips |-> 60, open |-> 60]
    [] code = "U" -> [jaw |-> 35, lips |-> 70, open |-> 40]
    [] OTHER -> undefined

VISEME_TO_BLENDSHAPE(code) ==
  CASE code = "0" -> <<>>
    [] code = "1" -> <<[name |-> "jawOpen", weight |-> 30], [name |-> "mouthOpen", weight |-> 40], [name |-> "mouthLowerDownLeft", weight |-> 15], [name |-> "mouthLowerDownRight", weight |-> 15]>>
    [] code = "2" -> <<[name |-> "jawOpen", weight |-> 35], [name |-> "mouthOpen", weight |-> 50]>>
    [] code = "3" -> <<[name |-> "jawOpen", weight |-> 25], [name |-> "mouthFunnel", weight |-> 30], [name |-> "mouthPucker", weight |-> 20]>>
    [] code = "4" -> <<[name |-> "jawOpen", weight |-> 20], [name |-> "mouthSmileLeft", weight |-> 30], [name |-> "mouthSmileRight", weight |-> 30]>>
    [] code = "5" -> <<[name |-> "jawOpen", weight |-> 15], [name |-> "mouthFunnel", weight |-> 25], [name |-> "mouthPucker", weight |-> 15]>>
    [] code = "6" -> <<[name |-> "jawOpen", weight |-> 10], [name |-> "mouthSmileLeft", weight |-> 40], [name |-> "mouthSmileRight", weight |-> 40]>>
    [] code = "7" -> <<[name |-> "jawOpen", weight |-> 10], [name |-> "mouthFunnel", weight |-> 35], [name |-> "mouthPucker", weight |-> 35]>>
    [] code = "8" -> <<[name |-> "jawOpen", weight |-> 20], [name |-> "mouthFunnel", weight |-> 30], [name |-> "mouthPucker", weight |-> 25]>>
    [] code = "9" -> <<[name |-> "jawOpen", weight |-> 35], [name |-> "mouthOpen", weight |-> 40], [name |-> "mouthFunnel", weight |-> 15]>>
    [] code = "10" -> <<[name |-> "jawOpen", weight |-> 25], [name |-> "mouthFunnel", weight |-> 20], [name |-> "mouthSmileLeft", weight |-> 20], [name |-> "mouthSmileRight", weight |-> 20]>>
    [] code = "11" -> <<[name |-> "jawOpen", weight |-> 30], [name |-> "mouthOpen", weight |-> 35], [name |-> "mouthSmileLeft", weight |-> 15], [name |-> "mouthSmileRight", weight |-> 15]>>
    [] code = "12" -> <<[name |-> "jawOpen", weight |-> 15], [name |-> "mouthOpen", weight |-> 20]>>
    [] code = "13" -> <<[name |-> "jawOpen", weight |-> 15], [name |-> "mouthPucker", weight |-> 25], [name |-> "mouthFunnel", weight |-> 20]>>
    [] code = "14" -> <<[name |-> "jawOpen", weight |-> 10], [name |-> "tongueOut", weight |-> 15], [name |-> "mouthOpen", weight |-> 15]>>
    [] code = "15" -> <<[name |-> "mouthSmileLeft", weight |-> 25], [name |-> "mouthSmileRight", weight |-> 25], [name |-> "jawOpen", weight |-> 5]>>
    [] code = "16" -> <<[name |-> "mouthFunnel", weight |-> 30], [name |-> "mouthPucker", weight |-> 20], [name |-> "jawOpen", weight |-> 10]>>
    [] code = "17" -> <<[name |-> "tongueOut", weight |-> 25], [name |-> "jawOpen", weight |-> 10], [name |-> "mouthOpen", weight |-> 15]>>
    [] code = "18" -> <<[name |-> "mouthLowerDownLeft", weight |-> 30], [name |-> "mouthLowerDownRight", weight |-> 30], [name |-> "mouthRollLower", weight |-> 20]>>
    [] code = "19" -> <<[name |-> "jawOpen", weight |-> 15], [name |-> "mouthClose", weight |-> 15], [name |-> "tongueOut", weight |-> 10]>>
    [] code = "20" -> <<[name |-> "jawOpen", weight |-> 20], [name |-> "mouthOpen", weight |-> 20]>>
    [] code = "21" -> <<[name |-> "mouthClose", weight |-> 50], [name |-> "mouthPucker", weight |-> 30], [name |-> "mouthPressLeft", weight |-> 20], [name |-> "mouthPressRight", weight |-> 20]>>

\* the keys of VISEME_TO_BLENDSHAPE
VisemeIds == {"0", "1", "2", "3", "4", "5", "6", "7", "8", "9", "10", "11",
              "12", "13", "14", "15", "16", "17", "18", "19", "20", "21"}


\* the characters of a morph-target or blendshape name
Chars(name) ==
  CASE name = "jawOpen" -> <<"j", "a", "w", "O", "p", "e", "n">>
    [] name = "mouthClose" -> <<"m", "o", "u", "t", "h", "C", "l", "o", "s", "e">>
    [] name = "mouthFunnel" -> <<"m", "o", "u", "t", "h", "F", "u", "n", "n", "e", "l">>
    [] name = "mouthLowerDownLeft" -> <<"m", "o", "u", "t", "h", "L", "o", "w", "e", "r", "D", "o", "w", "n", "L", "e", "f", "t">>
    [] name = "mouthLowerDownRight" -> <<"m", "o", "u", "t", "h", "L", "o", "w", "e", "r", "D", "o", "w", "n", "R", "i", "g", "h", "t">>
    [] name = "mouthOpen" -> <<"m", "o", "u", "t", "h", "O", "p", "e", "n">>
    [] name = "mouthPressLeft" -> <<"m", "o", "u", "t", "h", "P", "r", "e", "s", "s", "L", "e", "f", "t">>
    [] name = "mouthPressRight" -> <<"m", "o", "u", "t", "h", "P", "r", "e", "s", "s", "R", "i", "g", "h", "t">>
    [] name = "mouthPucker" -> <<"m", "o", "u", "t", "h", "P", "u", "c", "k", "e", "r">>
    [] name = "mouthRollLower" -> <<"m", "o", "u", "t", "h", "R", "o", "l", "l", "L", "o", "w", "e", "r">>
    [] name = "mouthSmileLeft" -> <<"m", "o", "u", "t", "h", "S", "m", "i", "l", "e", "L", "e", "f", "t">>
    [] name = "mouthSmileRight" -> <<"m", "o", "u", "t", "h", "S", "m", "i", "l", "e", "R", "i", "g", "h", "t">>
    [] name = "tongueOut" -> <<"t", "o", "n", "g", "u", "e", "O", "u", "t">>
    [] name = "MouthClose" -> <<"M", "o", "u", "t", "h", "C", "l", "o", "s", "e">>
    [] name = "mouthPucker_L" -> <<"m", "o", "u", "t", "h", "P", "u", "c", "k", "e", "r", "_", "L">>
    [] name = "mouth" -> <<"m", "o", "u", "t", "h">>
    [] name = "Mouth" -> <<"M", "o", "u", "t", "h">>

toLowerCaseChar(c) ==
  CASE c = "C" -> "c"
    [] c = "D" -> "d"
    [] c = "F" -> "f"
    [] c = "L" -> "l"
    [] c = "M" -> "m"
    [] c = "O" -> "o"
    [] c = "P" -> "p"
    [] c = "R" -> "r"
    [] c = "S" -> "s"
    [] OTHER -> c

----------------------------------------------------------------------------
(* The avatar components *)

CanvasVariants == {"Avatar", "HumanAvatar", "RealisticAvatar",
                   "PhotoRealisticAvatar", "VideoStyleAvatar", "ImageBasedAvatar"}
Variants == CanvasVariants \cup {"Face3DAvatar"}

\* the mapping table installed in a canvas component
Table(v, code) ==
  CASE v = "Avatar" -> VISEME_SHAPES(code)
    [] v = "HumanAvatar" -> VISEME_MOUTH_PARAMS(code)
    [] v = "RealisticAvatar" -> REALISTIC_VISEME_PARAMS(code)
    [] v = "PhotoRealisticAvatar" -> MOUTH_PARAMS(code)
    [] v = "VideoStyleAvatar" -> MOUTH_SHAPES(code)
    [] v = "ImageBasedAvatar" -> VISEME_CONFIG(code)

\* the parameter names the component's render loop reads and writes
Params(v) == DOMAIN Table(v, "sil")

\* the per-call blend factor of a canvas component, in hundredths
smoothFactor(v) ==
  CASE v = "HumanAvatar" -> 15
    [] v = "RealisticAvatar" -> 15
    [] v = "PhotoRealisticAvatar" -> 20
    [] v = "VideoStyleAvatar" -> 15
    [] v = "ImageBasedAvatar" -> 18

SetMin(S) == CHOOSE x \in S : \A y \in S : x <= y
SetMax(S) == CHOOSE x \in S : \A y \in S : x >= y

\* Face3DAvatar: the names of the mesh's morphTargetDictionary, in index
\* order (index i of the code is position i + 1 here)
FaceCapTargets == <<"jawOpen", "MouthClose", "mouthPucker_L", "mouth">>

MeshFaceCap == mesh = FaceCapTargets

\* Object.keys(mesh.morphTargetDictionary): three.js enters the morph targets
\* in index order, dictionary[name] = index, so a name carried by two targets
\* is one key, in the place of its first target, with the index of its last
RECURSIVE keysOf(_)
keysOf(G) ==
  IF G = <<>> THEN <<>>
  ELSE LET k == keysOf(SubSeq(G, 1, Len(G) - 1))
       IN IF \E i \in 1..Len(k) : k[i] = G[Len(G)] THEN k ELSE Append(k, G[Len(G)])

morphTargetNames == keysOf(mesh)

\* mesh.morphTargetDictionary[name] of a name that is a key (index from 0)
morphTargetDictionary(name) == SetMax({i \in 1..Len(mesh) : mesh[i] = name}) - 1

\* the length of targetWeights and currentWeights after the load
numTargets == Len(morphTargetNames)

\* mesh.morphTargetInfluences.length
numInfluences == Len(mesh)

SilenceTarget(v) ==
  IF v = "Face3DAvatar" THEN [i \in 1..numTargets |-> 0] ELSE Table(v, "sil")

----------------------------------------------------------------------------
(* Timeline resolvers *)


\* the loop of the canvas components: the first event, in sequence order,
\* whose interval [time, time + duration) holds t, else 'sil'
activeViseme(T, t) ==
  LET hits == {i \in 1..Len(T) : t >= T[i].time /\ t < T[i].time + T[i].duration}
  IN IF hits = {} THEN "sil" ELSE T[SetMin(hits)].viseme

\* the viseme effect without its reset branch: the timeline is scanned whether
\* or not the audio is playing
ResolveCanvasAlways(T, t, playing) == activeViseme(T, t)

\* the body of the canvas components' viseme effect
ResolveCanvas(T, t, playing) ==
  IF ~playing \/ Len(T) = 0 THEN "sil" ELSE activeViseme(T, t)

\* a scan from the front: the first event, in sequence order, with time <= t
getCurrentVisemeFirst(T, t) ==
  IF Len(T) = 0 THEN "0"
  ELSE LET hits == {i \in 1..Len(T) : t >= T[i].time}
       IN IF hits = {} THEN "0" ELSE T[SetMin(hits)].viseme

\* Face3DAvatar: the last event, in sequence order, with time <= t, else 0
getCurrentViseme(T, t) ==
  IF Len(T) = 0 THEN "0"
  ELSE LET hits == {i \in 1..Len(T) : t >= T[i].time}
       IN IF hits = {} THEN "0" ELSE T[SetMax(hits)].viseme

----------------------------------------------------------------------------
(* Face3DAvatar: morph-target name resolution *)

toLowerCase(s) == [i \in 1..Len(s) |-> toLowerCaseChar(s[i])]

\* a.includes(b) on character sequences
includes(a, b) ==
  \E k \in 0..(Len(a) - Len(b)) : \A j \in 1..Len(b) : a[k + j] = b[j]

\* a resolution that tries the case-insensitive substring match first
findMorphTargetIndexLooseFirst(targetName) ==
  LET exact == {i \in 1..numTargets : morphTargetNames[i] = targetName}
      lowerTarget == toLowerCase(Chars(targetName))
      loose == {i \in 1..numTargets :
                  LET n == toLowerCase(Chars(morphTargetNames[i]))
                  IN n = lowerTarget \/ includes(n, lowerTarget) \/ includes(lowerTarget, n)}
  IN IF loose # {} THEN morphTargetDictionary(morphTargetNames[SetMin(loose)])
     ELSE IF exact # {} THEN morphTargetDictionary(targetName)
     ELSE -1

\* the index (from 0) of the morph target for a blendshape name, or -1
findMorphTargetIndex(targetName) ==
  LET exact == {i \in 1..numTargets : morphTargetNames[i] = targetName}
      lowerTarget == toLowerCase(Chars(targetName))
      loose == {i \in 1..numTargets :
                  LET n == toLowerCase(Chars(morphTargetNames[i]))
                  IN n = lowerTarget \/ includes(n, lowerTarget) \/ includes(lowerTarget, n)}
  IN IF exact # {} THEN morphTargetDictionary(targetName)
     ELSE IF loose # {} THEN morphTargetDictionary(morphTargetNames[SetMin(loose)])
     ELSE -1

\* the loop over the blend shapes without its upper guard: an assignment
\* beyond the end of a JavaScript array lengthens the array
RECURSIVE setWeightsUnguarded(_, _)
setWeightsUnguarded(w, shapes) ==
  IF shapes = <<>> THEN w
  ELSE LET idx == findMorphTargetIndex(Head(shapes).name)
           n == IF idx + 1 > Len(w) THEN idx + 1 ELSE Len(w)
       IN setWeightsUnguarded(
            IF idx >= 0
              THEN [i \in 1..n |-> IF i = idx + 1 THEN Head(shapes).weight
                                   ELSE IF i <= Len(w) THEN w[i] ELSE Undef]
              ELSE w,
            Tail(shapes))

\* targetWeights after the fill(0) and the loop over the viseme's blend shapes
RECURSIVE setWeights(_, _)
setWeights(w, shapes) ==
  IF shapes = <<>> THEN w
  ELSE LET idx == findMorphTargetIndex(Head(shapes).name)
       IN setWeights(IF idx >= 0 /\ idx < Len(w)
                       THEN [w EXCEPT ![idx + 1] = Head(shapes).weight]
                       ELSE w,
                     Tail(shapes))

\* VISEME_TO_BLENDSHAPE[currentViseme] || []
blendShapes(code) == IF code \in VisemeIds THEN VISEME_TO_BLENDSHAPE(code) ELSE <<>>

targetWeights3D(T, t, playing) ==
  LET zero == [i \in 1..numTargets |-> 0]
  IN IF playing
       THEN setWeights(zero, blendShapes(getCurrentViseme(T, t)))
       ELSE zero

----------------------------------------------------------------------------
(* Viseme effects: from the props to currentViseme and the target *)

\* the target a canvas component's effects install for the props (T, t, playing)
targetOf(v, T, t, playing) ==
  LET sil == Table(v, "sil")
      active == ResolveCanvas(T, t, playing)
      quiet == ~playing \/ Len(T) = 0
  IN CASE v \in {"Avatar", "HumanAvatar", "RealisticAvatar"} ->
            Or(Table(v, active), sil)
       [] v = "PhotoRealisticAvatar" ->
            IF quiet THEN sil ELSE Or(Table(v, active), sil)
       [] v = "VideoStyleAvatar" ->
            IF quiet THEN Spread(sil, Params(v))
            ELSE Or(Spread(Table(v, active), Params(v)), Spread(sil, Params(v)))
       [] v = "ImageBasedAvatar" ->
            IF quiet THEN Spread(sil, Params(v))
            ELSE Spread(Or(Table(v, active), sil), Params(v))

----------------------------------------------------------------------------
(* Interpolation *)

\* a blend that starts from zero instead of from the current value: b * t
lerpFromZero(a, b, t) ==
  IF IsNumber(a) /\ IsNumber(b) THEN RoundDiv(b * t, 100) ELSE NaN

\* a + (b - a) * t, t in hundredths
lerp(a, b, t) ==
  IF IsNumber(a) /\ IsNumber(b) THEN a + RoundDiv((b - a) * t, 100) ELSE NaN

\* e^(-8/60) in ten-thousandths: the decay of one 60th of a second at smoothing = 8
ExpPerFrame == 8752

\* e^(-smoothing * delta) in ten-thousandths, delta = n 60ths of a second
RECURSIVE expDecay(_)
expDecay(n) == IF n = 0 THEN 10000 ELSE RoundDiv(expDecay(n - 1) * ExpPerFrame, 10000)

\* 1 - Math.exp(-smoothing * delta), in hundredths
factor3D(n) == RoundDiv(10000 - expDecay(n), 100)

\* x || 0 on numbers
OrZero(x) == IF x = NaN \/ x = Undef \/ x = 0 THEN 0 ELSE x

\* a[i] (index from 1 here): undefined beyond the length of the array
At(a, i) == IF i \in 1..Len(a) THEN a[i] ELSE Undef

\* the parameter set after one frame of a component, given what the frame reads
tick(v, cur, tgt, dt) ==
  CASE v = "Avatar" -> tgt
    [] v = "Face3DAvatar" ->
         [i \in 1..numInfluences |->
            lerp(OrZero(At(cur, i)), OrZero(At(tgt, i)), factor3D(dt))]
    [] OTHER -> [p \in Params(v) |-> lerp(cur[p], tgt[p], smoothFactor(v))]
----------------------------------------------------------------------------
(* Inputs *)

VisemeEvent(t, v, d) == [time |-> t, viseme |-> v, duration |-> d]

\* a timeline is sorted ascending by time; its events may overlap or leave gaps
IsSorted(T) == \A i \in 1..(Len(T) - 1) : T[i].time <= T[i + 1].time

\* SpecResolve: every timeline within the bounds, over one code of each vocabulary
ResolveCodes == {"aa", "2"}
ResolveEvents ==
  {VisemeEvent(t, v, d) : t \in 0..MaxTime, v \in ResolveCodes, d \in 1..MaxDur}
ResolveTimelines ==
  {T \in UNION {[1..n -> ResolveEvents] : n \in 0..MaxEvents} : IsSorted(T)}

\* Spec: an utterance in the named vocabulary of the canvas components and one in
\* the numeric vocabulary of Face3DAvatar, each with a gap (at time 1) and an end
\* (at time 3); the page hands the same timeline to whichever component is mounted,
\* so each utterance is out of vocabulary for the components of the other kind
UtteranceNamed == <<VisemeEvent(0, "aa", 1), VisemeEvent(2, "aa", 1)>>
UtteranceNumeric == <<VisemeEvent(0, "2", 1), VisemeEvent(2, "2", 1)>>
Utterances == {UtteranceNamed, UtteranceNumeric}

----------------------------------------------------------------------------
(* State machine of one mounted avatar component *)

\* the refs and state of a freshly mounted component
MountedWith(v, T, t, playing) ==
  /\ variant = v
  /\ visemes = T
  /\ currentTime = t
  /\ isPlaying = playing
  /\ currentViseme = IF v = "Face3DAvatar" THEN getCurrentViseme(T, t) ELSE "sil"
  /\ target = IF v = "Face3DAvatar" THEN <<>> ELSE Table(v, "sil")
  /\ current = IF v = "Face3DAvatar" THEN <<>> ELSE Table(v, "sil")
  /\ loaded = (v \notin {"Face3DAvatar", "ImageBasedAvatar"})
  /\ last = [op |-> "Mount", dt |-> 0, cur |-> current]

\* the effects (and, in Face3DAvatar, the render) that follow new props
RunEffects ==
  /\ IF variant = "Face3DAvatar"
       THEN /\ currentViseme' = getCurrentViseme(visemes', currentTime')
            /\ UNCHANGED <<target, current>>
       ELSE /\ currentViseme' = ResolveCanvas(visemes', currentTime', isPlaying')
            /\ target' = targetOf(variant, visemes', currentTime', isPlaying')
            /\ current' = IF variant = "Avatar" THEN target' ELSE current
  /\ last' = [op |-> "Render", dt |-> 0, cur |-> current']
  /\ UNCHANGED <<variant, loaded>>

\* the page re-renders the component with new props
Render(T, t, playing) ==
  /\ <<T, t, playing>> # <<visemes, currentTime, isPlaying>>
  /\ visemes' = T
  /\ currentTime' = t
  /\ isPlaying' = playing
  /\ RunEffects

\* the mesh (Face3DAvatar) or the face image (ImageBasedAvatar) finishes loading
Load ==
  /\ ~loaded
  /\ loaded' = TRUE
  /\ IF variant = "Face3DAvatar"
       THEN /\ target' = [i \in 1..numTargets |-> 0]
            /\ current' = [i \in 1..numTargets |-> 0]
       ELSE UNCHANGED <<target, current>>
  /\ last' = [op |-> "Load", dt |-> 0, cur |-> current']
  /\ UNCHANGED <<variant, visemes, isPlaying, currentTime, currentViseme>>

\* one animation frame of a canvas component: the loop reads no clock, and the
\* model counts the frame as one 60th of a second
Frame ==
  /\ variant \in CanvasVariants
  /\ loaded
  /\ current' = tick(variant, current, target, 1)
  /\ last' = [op |-> "Tick", dt |-> 1, cur |-> current]
  /\ UNCHANGED <<variant, visemes, isPlaying, currentTime, currentViseme, target, loaded>>

\* one useFrame callback of Face3DAvatar, delta = dt 60ths of a second
useFrame(dt) ==
  /\ variant = "Face3DAvatar"
  /\ loaded
  /\ target' = targetWeights3D(visemes, currentTime, isPlaying)
  /\ current' = tick(variant, current, target', dt)
  /\ last' = [op |-> "Tick", dt |-> dt, cur |-> current]
  /\ UNCHANGED <<variant, visemes, isPlaying, currentTime, currentViseme, loaded>>

----------------------------------------------------------------------------
(* Idle motion: blink and micro-movement of the render loops *)

\* the components whose render loop has idle motion
IdleVariants == {"VideoStyleAvatar", "ImageBasedAvatar"}

\* nextBlink of a fresh component: Date.now() + 2000
BlinkFirst == 4
\* now + 2500 + Math.random() * 3000: the gap, and the range of the random part
BlinkGap == 5
BlinkJitter == 6
\* microMovementRef.current.phase += 0.02, in hundredths
PhaseStep == 2

\* a decay of one tenth in every frame
blinkDecaySlow(v) ==
  CASE v = "VideoStyleAvatar" -> 10
    [] v = "ImageBasedAvatar" -> 10

\* the amount taken off the blink value in every frame, in hundredths
blinkDecay(v) ==
  CASE v = "VideoStyleAvatar" -> 15
    [] v = "ImageBasedAvatar" -> 12

Max(a, b) == IF a >= b THEN a ELSE b

\* the idle state is not followed (Spec, SpecResolve, SpecHost)
IdleHidden ==
  /\ now = 0
  /\ idle = [hidden |-> TRUE]

\* the idle refs of a component mounted at time t
idleRefs(v, t) ==
  CASE v = "VideoStyleAvatar" ->
         [value |-> 0, nextBlink |-> t + BlinkFirst, blinkAt |-> -1,
          blinks |-> 0, frames |-> 0, phase |-> 0]
    [] v = "ImageBasedAvatar" ->
         [value |-> 0, nextBlink |-> t + BlinkFirst, blinkAt |-> -1,
          blinks |-> 0, frames |-> 0]
    [] OTHER -> [hidden |-> TRUE]

\* the idle refs of a freshly mounted component
IdleMounted(v) ==
  /\ now = 0
  /\ idle = idleRefs(v, 0)

\* a blink update whose decay is not floored at 0
blinkUpdateNoFloor(v, b, t, r) ==
  LET due == t >= b.nextBlink
      raised == IF due THEN 100 ELSE b.value
  IN [b EXCEPT !.value = raised - blinkDecay(v),
               !.nextBlink = IF due THEN t + BlinkGap + r ELSE @,
               !.blinkAt = IF due THEN t ELSE @,
               !.blinks = IF due THEN @ + 1 ELSE @,
               !.frames = @ + 1]

\* a blink update that reschedules without the fixed gap: now + random
blinkUpdateNoGap(v, b, t, r) ==
  LET due == t >= b.nextBlink
      raised == IF due THEN 100 ELSE b.value
  IN [b EXCEPT !.value = Max(0, raised - blinkDecay(v)),
               !.nextBlink = IF due THEN t + r ELSE @,
               !.blinkAt = IF due THEN t ELSE @,
               !.blinks = IF due THEN @ + 1 ELSE @,
               !.frames = @ + 1]

\* the blink update of one frame at time t, r the random part of the next gap
blinkUpdate(v, b, t, r) ==
  LET due == t >= b.nextBlink
      raised == IF due THEN 100 ELSE b.value
  IN [b EXCEPT !.value = Max(0, raised - blinkDecay(v)),
               !.nextBlink = IF due THEN t + BlinkGap + r ELSE @,
               !.blinkAt = IF due THEN t ELSE @,
               !.blinks = IF due THEN @ + 1 ELSE @,
               !.frames = @ + 1]

\* idle updates that run only while the audio is playing
idleUpdateWhilePlaying(v, b, t, r) ==
  IF ~isPlaying THEN [b EXCEPT !.frames = @ + 1]
  ELSE IF v = "VideoStyleAvatar"
    THEN [blinkUpdate(v, b, t, r) EXCEPT !.phase = @ + PhaseStep]
    ELSE blinkUpdate(v, b, t, r)

\* the idle updates of one frame
idleUpdate(v, b, t, r) ==
  IF v = "VideoStyleAvatar"
    THEN [blinkUpdate(v, b, t, r) EXCEPT !.phase = @ + PhaseStep]
    ELSE blinkUpdate(v, b, t, r)

\* one call of render of VideoStyleAvatar or ImageBasedAvatar: the mouth
\* interpolation, then the idle updates
renderFrame(r) ==
  /\ variant \in IdleVariants
  /\ Frame
  /\ idle' = idleUpdate(variant, idle, now, r)
  /\ UNCHANGED now

\* the frames of SpecIdle and SpecTwin
render(r) ==
  /\ idle.frames < MaxTicks
  /\ renderFrame(r)

\* the wall clock advances
Advance ==
  /\ now < MaxNow
  /\ now' = now + 1
  /\ UNCHANGED <<avatarVars, idle>>

----------------------------------------------------------------------------
(* Two components side by side *)

\* a mouth update that skips the frame when the random number is not 0
mouthFrameAtRandom(v, cur, tgt, dt, t, r) ==
  IF r = 0 THEN tick(v, cur, tgt, dt) ELSE cur

\* the mouth part of a frame, given everything the frame can read: the refs,
\* the elapsed time, Date.now() (t) and Math.random() (r)
mouthFrame(v, cur, tgt, dt, t, r) == tick(v, cur, tgt, dt)

\* no second component (Spec, SpecResolve, SpecHost, SpecIdle)
TwinHidden == twin = [hidden |-> TRUE]

\* the second component, mounted with the first on a clock ahead by k
TwinMounted(v, k) ==
  twin = [skew |-> k, currentViseme |-> currentViseme, target |-> target,
          current |-> current, idle |-> idleRefs(v, k)]

\* both components are re-rendered with the props (T, t, playing)
TwinRender(T, t, playing) ==
  /\ Render(T, t, playing)
  /\ twin' = IF variant = "Face3DAvatar"
               THEN [twin EXCEPT !.currentViseme = getCurrentViseme(T, t)]
               ELSE [twin EXCEPT
                       !.currentViseme = ResolveCanvas(T, t, playing),
                       !.target = targetOf(variant, T, t, playing),
                       !.current = IF variant = "Avatar"
                                     THEN targetOf(variant, T, t, playing) ELSE @]

\* both meshes, or both images, finish loading
TwinLoad ==
  /\ Load
  /\ twin' = IF variant = "Face3DAvatar"
               THEN [twin EXCEPT !.target = [i \in 1..numTargets |-> 0],
                                 !.current = [i \in 1..numTargets |-> 0]]
               ELSE twin

\* both canvas components render a frame; r1 and r2 are their random numbers
TwinFrame(r1, r2) ==
  /\ IF variant \in IdleVariants
       THEN idle.frames < MaxTwinTicks /\ render(r1)
       ELSE Frame /\ UNCHANGED idleVars
  /\ twin' = [twin EXCEPT
       !.current = mouthFrame(variant, @, twin.target, 1, now + twin.skew, r2),
       !.idle = IF variant \in IdleVariants
                  THEN idleUpdate(variant, @, now + twin.skew, r2) ELSE @]

\* both Face3DAvatar components run useFrame with the same delta
TwinUseFrame(dt) ==
  /\ useFrame(dt)
  /\ twin' = [twin EXCEPT
       !.target = targetWeights3D(visemes, currentTime, isPlaying),
       !.current = mouthFrame(variant, @,
                              targetWeights3D(visemes, currentTime, isPlaying),
                              dt, now + twin.skew, 0)]

----------------------------------------------------------------------------
(* The route POST /api/text-to-speech *)

\* JavaScript values a request body can carry in its text property, each
\* with its type and its value as written in JSON
JsUndefined == [type |-> "undefined"]
JsNull == [type |-> "null"]
JsString(x) == [type |-> "string", value |-> x]
JsNumber(n) == [type |-> "number", value |-> n]
JsBoolean(b) == [type |-> "boolean", value |-> b]
JsObject(keys) == [type |-> "object", keys |-> keys]

TextValues ==
  {JsUndefined, JsNull, JsString(""), JsString("hello"), JsString(" "),
   JsNumber("0"), JsNumber("5"), JsBoolean("true"), JsObject({})}

\* request bodies: not JSON at all, or a JSON value: null, a number, an
\* object without text, an object with a text property
Unparsable == [json |-> FALSE]
Json(v) == [json |-> TRUE, value |-> v]
WithText(tv) == [type |-> "object", keys |-> {"text"}, text |-> tv]
Bodies ==
  {Unparsable, Json(JsNull), Json(JsNumber("5")), Json(JsObject({}))}
    \cup {Json(WithText(tv)) : tv \in TextValues \ {JsUndefined}}

\* !x
Falsy(x) ==
  \/ x.type \in {"undefined", "null"}
  \/ x.type = "string" /\ x.value = ""
  \/ x.type = "number" /\ x.value = "0"
  \/ x.type = "boolean" /\ x.value = "false"

\* v.text
textOf(v) ==
  IF v.type = "object" /\ "text" \in v.keys THEN v.text ELSE JsUndefined

\* NextResponse.json(body, { status })
NextResponse(status, keys, text) == [status |-> status, keys |-> keys, text |-> text]

\* the handler: request.json() rejects on a body that is not JSON, and the
\* destructuring { text } throws on null; both land in the catch
POST(body) ==
  IF ~body.json \/ body.value.type = "null"
    THEN NextResponse(500, {"error"}, JsUndefined)
  ELSE LET text == textOf(body.value)
       IN IF Falsy(text) \/ text.type # "string"
            THEN NextResponse(400, {"error"}, JsUndefined)
            ELSE NextResponse(200,
                              {"message", "text", "audioUrl", "visemes",
                               "timestamp", "note"},
                              text)

\* no request yet
ApiIdle == api = [handling |-> <<>>, log |-> <<>>]

\* a request arrives
Request(body) ==
  /\ Len(api.handling) + Len(api.log) < MaxRequests
  /\ api' = [api EXCEPT !.handling = Append(@, body)]

\* the handler runs on a request and returns its response
Respond(i) ==
  /\ i \in 1..Len(api.handling)
  /\ api' = [handling |-> [j \in 1..(Len(api.handling) - 1) |->
                             IF j < i THEN api.handling[j] ELSE api.handling[j + 1]],
             log |-> Append(api.log, [body |-> api.handling[i],
                                      response |-> POST(api.handling[i])])]

----------------------------------------------------------------------------
(* The component with its effects run apart from the commit of its props *)

\* a page on which the user has not tried to send anything yet
PageOf(name) == [name |-> name, attempts |-> 0, inputText |-> ""]

\* no effect is owed: the specifications that run the effects with the commit
EffectsDone == pendingEffects = 0

\* the specifications of one avatar component: the mesh of /facecap.glb, the
\* page of part_001, and neither a VideoAvatar nor a loop that is followed
OthersHidden ==
  /\ MeshFaceCap
  /\ page = PageOf("part_001")
  /\ video = [hidden |-> TRUE]
  /\ raf = [hidden |-> TRUE]

\* the components whose viseme effect only sets the state currentViseme, and
\* whose target follows in an effect of the re-render
ChainedVariants == {"Avatar", "HumanAvatar", "RealisticAvatar"}

\* the rounds of effects between a commit of new props and the new target
effectRounds(v) ==
  CASE v = "Face3DAvatar" -> 0
    [] v \in ChainedVariants -> 2
    [] OTHER -> 1

\* the page re-renders the component with new props; the effects are owed.
\* Face3DAvatar computes currentVisemeId in the render itself
Commit(T, t, playing) ==
  /\ pendingEffects = 0
  /\ <<T, t, playing>> # <<visemes, currentTime, isPlaying>>
  /\ visemes' = T
  /\ currentTime' = t
  /\ isPlaying' = playing
  /\ currentViseme' = IF variant = "Face3DAvatar" THEN getCurrentViseme(T, t)
                                                  ELSE currentViseme
  /\ pendingEffects' = effectRounds(variant)
  /\ last' = [op |-> "Commit", dt |-> 0, cur |-> current]
  /\ UNCHANGED <<variant, target, current, loaded>>

\* one round of effects: the viseme effect, or, in the chained components, the
\* effect of the re-render that setCurrentViseme caused
Effect ==
  /\ pendingEffects > 0
  /\ pendingEffects' = pendingEffects - 1
  /\ IF variant \in ChainedVariants
       THEN IF pendingEffects = 2
              THEN /\ currentViseme' = ResolveCanvas(visemes, currentTime, isPlaying)
                   /\ UNCHANGED <<target, current>>
              ELSE /\ target' = Or(Table(variant, currentViseme), Table(variant, "sil"))
                   /\ current' = IF variant = "Avatar" THEN target' ELSE current
                   /\ UNCHANGED currentViseme
       ELSE /\ currentViseme' = ResolveCanvas(visemes, currentTime, isPlaying)
            /\ target' = targetOf(variant, visemes, currentTime, isPlaying)
            /\ UNCHANGED current
  /\ last' = [op |-> "Effect", dt |-> 0, cur |-> current']
  /\ UNCHANGED <<variant, visemes, isPlaying, currentTime, loaded>>

----------------------------------------------------------------------------
(* The page: handleSubmit, the audio events, handleTimeUpdate, handleAudioEnd *)

HostIdle ==
  /\ isProcessing = FALSE
  /\ messages = <<>>
  /\ request = "idle"
  /\ audios = <<>>

\* the page's state setters took effect: the component re-renders with the
\* props (T, t, playing) and its effects run
SetProps(T, t, playing) ==
  /\ visemes' = T
  /\ currentTime' = t
  /\ isPlaying' = playing
  /\ RunEffects

Message(role, content) == [role |-> role, content |-> content]

\* handleSubmit up to the await of fetch
Submit ==
  /\ request = "idle"
  /\ ~isProcessing
  /\ Len(messages) < 2 * MaxSubmits
  /\ messages' = Append(messages, Message("user", "input"))
  /\ isProcessing' = TRUE
  /\ request' = "fetch"
  /\ UNCHANGED <<audios, avatarVars>>

\* the response is OK and carries audio_url and visemes (and the page is not
\* muted): the timeline is installed, the Audio is created and play() is called
ResponseAudio(U) ==
  /\ request = "fetch"
  /\ messages' = Append(messages, Message("assistant", "response"))
  /\ audios' = Append(audios, [state |-> "starting", pos |-> 0, visemes |-> U])
  /\ request' = "play"
  /\ UNCHANGED isProcessing
  /\ SetProps(U, currentTime, isPlaying)

\* the response is OK without audio or visemes, or the page is muted
ResponseText ==
  /\ request = "fetch"
  /\ messages' = Append(messages, Message("assistant", "response"))
  /\ isProcessing' = FALSE
  /\ request' = "idle"
  /\ UNCHANGED <<audios, avatarVars>>

\* the response is not OK, or fetch rejects: the catch and the finally
ResponseError ==
  /\ request = "fetch"
  /\ messages' = Append(messages, Message("assistant", "error"))
  /\ isProcessing' = FALSE
  /\ request' = "idle"
  /\ UNCHANGED <<audios, avatarVars>>

\* the 'play' event of Audio i
PlayEvent(i) ==
  /\ audios[i].state = "starting"
  /\ audios' = [audios EXCEPT ![i].state = "started"]
  /\ UNCHANGED <<isProcessing, messages, request>>
  /\ SetProps(visemes, currentTime, TRUE)

\* the promise of audio.play() resolves: the finally of handleSubmit
PlayResolved ==
  /\ request = "play"
  /\ audios[Len(audios)].state = "started"
  /\ audios' = [audios EXCEPT ![Len(audios)].state = "playing"]
  /\ isProcessing' = FALSE
  /\ request' = "idle"
  /\ UNCHANGED <<messages, avatarVars>>

\* a rejection of play() after which the finally does not run
PlayRejectedNoFinally ==
  /\ request = "play"
  /\ audios[Len(audios)].state \in {"starting", "started"}
  /\ audios' = [audios EXCEPT ![Len(audios)].state = "failed"]
  /\ request' = "idle"
  /\ UNCHANGED <<messages, isProcessing>>
  /\ SetProps(visemes, currentTime, FALSE)

\* the promise of audio.play() rejects (playback not allowed, or the source does
\* not load): the inner catch, then the finally
PlayRejected ==
  /\ request = "play"
  /\ audios[Len(audios)].state \in {"starting", "started"}
  /\ audios' = [audios EXCEPT ![Len(audios)].state = "failed"]
  /\ isProcessing' = FALSE
  /\ request' = "idle"
  /\ UNCHANGED messages
  /\ SetProps(visemes, currentTime, FALSE)

\* a 'timeupdate' event of Audio i: handleTimeUpdate reads audioRef.current,
\* the Audio created last
handleTimeUpdate(i) ==
  /\ audios[i].state = "playing"
  /\ audios[i].pos < MaxClock
  /\ audios' = [audios EXCEPT ![i].pos = @ + 1]
  /\ UNCHANGED <<isProcessing, messages, request>>
  /\ SetProps(visemes, audios'[Len(audios)].pos, isPlaying)

\* a handleAudioEnd that stops the playback and keeps the timeline installed
handleAudioEndKeepsTimeline(i) ==
  /\ audios[i].state = "playing"
  /\ audios' = [audios EXCEPT ![i].state = "ended"]
  /\ UNCHANGED <<isProcessing, messages, request>>
  /\ SetProps(visemes, 0, FALSE)

\* the 'ended' event of Audio i
handleAudioEnd(i) ==
  /\ audios[i].state = "playing"
  /\ audios' = [audios EXCEPT ![i].state = "ended"]
  /\ UNCHANGED <<isProcessing, messages, request>>
  /\ SetProps(<<>>, 0, FALSE)

----------------------------------------------------------------------------
(* The form of the pages, and the outcomes of handleSubmit in part_000 *)

Pages == {"part_000", "part_001"}

\* what the input field may hold when the user tries to send
Inputs == {"", " ", "hi"}

\* inputText.trim()
trim(text) == IF text = " " THEN "" ELSE text

\* the Send button is disabled, so neither a click nor Enter submits the form
\* (and the handleSubmit of part_001 returns at once in the same cases)
Disabled(text) == isProcessing \/ trim(text) = ""

\* the user clicks Send or presses Enter with text in the input field
SubmitForm(text) ==
  /\ page.attempts < MaxAttempts
  /\ page' = [page EXCEPT !.attempts = @ + 1, !.inputText = text]
  /\ IF Disabled(text)
       THEN UNCHANGED <<hostVars, avatarVars>>
       ELSE Submit

\* part_000: the response is not OK - nothing is appended, then the finally
ResponseNotOk ==
  /\ page.name = "part_000"
  /\ request = "fetch"
  /\ isProcessing' = FALSE
  /\ request' = "idle"
  /\ UNCHANGED <<messages, audios, avatarVars>>

----------------------------------------------------------------------------
(* VideoAvatar: its props, its state and the events of its <video> element *)

\* videoSrc: 0 is null, 1..MaxSources are the sources the page may supply
Sources == 1..MaxSources

\* the <video> element is rendered only with a source; a new element, and an
\* element whose src attribute has changed, loads its source
elementFor(src, old) ==
  IF src = 0 THEN "none" ELSE IF src = old.videoSrc THEN old.element ELSE "loading"

\* the effect on [videoSrc, autoPlay]
sourceEffect(v) ==
  IF v.videoSrc # 0 /\ v.element # "none" /\ v.autoPlay
    THEN [v EXCEPT !.hasError = FALSE, !.videoReady = FALSE, !.element = "loading"]
    ELSE v

\* the component is mounted with the props (src, ap)
VideoMounted(src, ap) ==
  video = sourceEffect([videoSrc |-> src, autoPlay |-> ap, hasError |-> FALSE,
                        videoReady |-> FALSE, isPlaying |-> FALSE, isMuted |-> FALSE,
                        element |-> IF src = 0 THEN "none" ELSE "loading"])

\* the page re-renders the component with new props, and the effect runs
VideoProps(src, ap) ==
  /\ <<src, ap>> # <<video.videoSrc, video.autoPlay>>
  /\ video' = sourceEffect([video EXCEPT !.videoSrc = src, !.autoPlay = ap,
                                         !.element = elementFor(src, video)])

\* the 'canplay' event
handleCanPlay ==
  /\ video.element = "loading"
  /\ video' = [video EXCEPT !.videoReady = TRUE, !.element = "ready"]

\* the 'error' event
handleError ==
  /\ video.element \in {"loading", "ready"}
  /\ video' = [video EXCEPT !.hasError = TRUE, !.videoReady = FALSE, !.element = "error"]

\* the Retry button, which is shown while hasError is true
handleRetry ==
  /\ video.hasError
  /\ video' = [video EXCEPT !.hasError = FALSE,
                            !.element = IF @ = "none" THEN "none" ELSE "loading"]

\* the 'play' event, after the play() of handleCanPlay or of togglePlay
handlePlay ==
  /\ video.element = "ready"
  /\ ~video.isPlaying
  /\ video' = [video EXCEPT !.isPlaying = TRUE]

\* the 'pause' event
handlePause ==
  /\ video.element = "ready"
  /\ video.isPlaying
  /\ video' = [video EXCEPT !.isPlaying = FALSE]

\* the 'ended' event
handleEnded ==
  /\ video.element = "ready"
  /\ video.isPlaying
  /\ video' = [video EXCEPT !.isPlaying = FALSE]

toggleMute ==
  /\ video.element # "none"
  /\ video' = [video EXCEPT !.isMuted = ~@]

----------------------------------------------------------------------------
(* The animation loops of the canvas components: requestAnimationFrame,
   cancelAnimationFrame and the effects that start and stop a loop.
   raf.pending holds the ids of the callbacks the browser has still to run,
   raf.ref the id kept in animationFrameRef / animationRef, raf.dep the
   dependency of the loop effect (currentViseme, hasCamera, faceLoaded,
   imageLoaded), raf.ticks the draws done by the last step. *)

LoopComponents ==
  {"Avatar", "HumanAvatar", "RealisticAvatar", "PhotoRealisticAvatar",
   "VideoStyleAvatar", "ImageBasedAvatar"}

\* the components whose loop effect has a dependency that changes
Restartable == {"Avatar", "RealisticAvatar", "PhotoRealisticAvatar", "ImageBasedAvatar"}

\* the cleanup of a loop effect, without it
cleanupNoCancel(r) == r

\* the cleanup of a loop effect: cancelAnimationFrame(ref.current)
cleanup(r) == IF r.ref # 0 THEN [r EXCEPT !.pending = @ \ {r.ref}] ELSE r

\* the draws of one call of animate / render: none without a canvas, none in
\* RealisticAvatar while the camera draws, none in ImageBasedAvatar without
\* the face image
draws(r) ==
  IF ~r.mounted THEN 0
  ELSE IF r.comp = "RealisticAvatar" THEN (IF r.dep = 1 THEN 0 ELSE 1)
  ELSE IF r.comp = "ImageBasedAvatar" THEN (IF r.dep = 1 THEN 1 ELSE 0)
  ELSE 1

\* VideoStyleAvatar's render returns before requestAnimationFrame without a canvas
reschedules(r) == ~(r.comp = "VideoStyleAvatar" /\ ~r.mounted)

\* one call of animate / render
animate(r) ==
  IF reschedules(r)
    THEN [r EXCEPT !.ticks = @ + draws(r), !.pending = @ \cup {r.nextId},
                   !.ref = r.nextId, !.nextId = @ + 1]
    ELSE [r EXCEPT !.ticks = @ + draws(r)]

\* the body of a loop effect
effectStart(r) ==
  IF r.comp = "ImageBasedAvatar" /\ r.dep = 0 THEN r ELSE animate(r)

\* the browser runs the callbacks that were pending when the frame began
RECURSIVE runCallbacks(_, _)
runCallbacks(r, ids) ==
  IF ids = {} THEN r
  ELSE LET id == SetMin(ids)
       IN runCallbacks(animate([r EXCEPT !.pending = @ \ {id}]), ids \ {id})

LoopMounted(c) ==
  raf = [effectStart([comp |-> c, mounted |-> TRUE, dep |-> 0, pending |-> {},
                      ref |-> 0, nextId |-> 1, ticks |-> 0, restarts |-> 0,
                      last |-> "mount"]) EXCEPT !.last = "mount"]

\* one animation frame of the browser
LoopFrame ==
  /\ raf.nextId + Cardinality(raf.pending) <= MaxCallbacks + 1
  /\ raf' = [runCallbacks([raf EXCEPT !.ticks = 0], raf.pending) EXCEPT !.last = "frame"]

\* a dependency of the loop effect changes (a new currentViseme, the camera
\* started, the face image loaded): the cleanup runs, then the effect again
LoopDep ==
  /\ raf.mounted
  /\ raf.comp \in Restartable
  /\ raf.comp = "Avatar" \/ raf.dep = 0
  /\ raf.restarts < MaxRestarts
  /\ raf.nextId <= MaxCallbacks
  /\ raf' = [effectStart(cleanup([raf EXCEPT !.dep = 1 - @, !.ticks = 0,
                                             !.restarts = @ + 1]))
               EXCEPT !.last = "effect"]

\* a re-render that changes no dependency of the loop effect
LoopRender ==
  /\ raf.mounted
  /\ raf' = [raf EXCEPT !.ticks = 0, !.last = "render"]

\* RealisticAvatar: startCamera failed and draws the static face itself
CameraFallback ==
  /\ raf.comp = "RealisticAvatar"
  /\ raf.dep = 0
  /\ raf' = [raf EXCEPT !.ticks = IF raf.mounted THEN 1 ELSE 0, !.last = "fallback"]

\* the component unmounts: the cleanup of the loop effect runs
LoopUnmount ==
  /\ raf.mounted
  /\ raf' = [cleanup(raf) EXCEPT !.mounted = FALSE, !.ticks = 0, !.last = "unmount"]

----------------------------------------------------------------------------
(* SpecResolve: the resolvers on every timeline within the bounds *)

InitResolve ==
  \E v \in Variants, T \in ResolveTimelines, t \in 0..(MaxTime + MaxDur),
     playing \in BOOLEAN :
       MountedWith(v, T, t, playing) /\ HostIdle /\ IdleHidden /\ TwinHidden
         /\ ApiIdle /\ EffectsDone /\ OthersHidden

\* the effects of the mount run on the props the component was mounted with
Resolve ==
  /\ last.op = "Mount"
  /\ UNCHANGED <<visemes, currentTime, isPlaying, beyondAvatar>>
  /\ RunEffects

NextResolve == Resolve

SpecResolve == InitResolve /\ [][NextResolve]_vars

----------------------------------------------------------------------------
(* Spec: one component, re-rendered by its page and ticked by the browser *)

Init ==
  \E v \in Variants :
    MountedWith(v, <<>>, 0, FALSE) /\ HostIdle /\ IdleHidden /\ TwinHidden
      /\ ApiIdle /\ EffectsDone /\ OthersHidden

Next ==
  \/ \E T \in Utterances \cup {<<>>}, t \in 0..MaxClock, playing \in BOOLEAN :
       Render(T, t, playing) /\ UNCHANGED beyondAvatar
  \/ Load /\ UNCHANGED beyondAvatar
  \/ Frame /\ UNCHANGED beyondAvatar
  \/ \E dt \in 0..MaxFrames : useFrame(dt) /\ UNCHANGED beyondAvatar

Spec == Init /\ [][Next]_vars

----------------------------------------------------------------------------
(* SpecHost: the page and the events of its Audio elements, with the effects *)
(* of the mounted component                                                 *)

NextHost ==
  \/ Submit /\ UNCHANGED beyondHost
  \/ \E U \in Utterances : ResponseAudio(U) /\ UNCHANGED beyondHost
  \/ ResponseText /\ UNCHANGED beyondHost
  \/ ResponseError /\ UNCHANGED beyondHost
  \/ \E i \in 1..Len(audios) : PlayEvent(i) /\ UNCHANGED beyondHost
  \/ PlayResolved /\ UNCHANGED beyondHost
  \/ PlayRejected /\ UNCHANGED beyondHost
  \/ \E i \in 1..Len(audios) : handleTimeUpdate(i) /\ UNCHANGED beyondHost
  \/ \E i \in 1..Len(audios) : handleAudioEnd(i) /\ UNCHANGED beyondHost
  \/ Load /\ UNCHANGED beyondAvatar

SpecHost == Init /\ [][NextHost]_vars

----------------------------------------------------------------------------
(* SpecPage: either page with its form: tries to send at any time, with any *)
(* input, and every outcome of the request. SpecPageFair: every request and *)
(* every call of play() comes to an outcome                                 *)

InitPage ==
  \E p \in Pages :
    /\ page = PageOf(p)
    /\ MountedWith("HumanAvatar", <<>>, 0, FALSE)
    /\ HostIdle /\ IdleHidden /\ TwinHidden /\ ApiIdle /\ EffectsDone
    /\ MeshFaceCap
    /\ video = [hidden |-> TRUE]
    /\ raf = [hidden |-> TRUE]

beyondPage == <<idleVars, twinVars, apiVars, effectVars, meshVars, videoVars, loopVars>>

Outcome ==
  \/ \E U \in Utterances : page.name = "part_001" /\ ResponseAudio(U) /\ UNCHANGED beyondHost
  \/ ResponseText /\ UNCHANGED beyondHost
  \/ ResponseError /\ UNCHANGED beyondHost
  \/ ResponseNotOk /\ UNCHANGED beyondHost
  \/ PlayResolved /\ UNCHANGED beyondHost
  \/ PlayRejected /\ UNCHANGED beyondHost

NextPage ==
  \/ \E text \in Inputs : SubmitForm(text) /\ UNCHANGED beyondPage
  \/ Outcome
  \/ \E i \in 1..Len(audios) : PlayEvent(i) /\ UNCHANGED beyondHost
  \/ \E i \in 1..Len(audios) : handleTimeUpdate(i) /\ UNCHANGED beyondHost
  \/ \E i \in 1..Len(audios) : handleAudioEnd(i) /\ UNCHANGED beyondHost

SpecPage == InitPage /\ [][NextPage]_vars

SpecPageFair == SpecPage /\ WF_vars(Outcome)

----------------------------------------------------------------------------
(* SpecIdle: VideoStyleAvatar or ImageBasedAvatar with its whole render loop, *)
(* the wall clock, and a page that starts and stops one utterance            *)

InitIdle ==
  \E v \in IdleVariants :
    MountedWith(v, <<>>, 0, FALSE) /\ HostIdle /\ IdleMounted(v) /\ TwinHidden
      /\ ApiIdle /\ EffectsDone /\ OthersHidden

NextIdle ==
  \/ \E T \in {<<>>, UtteranceNamed} :
       Render(T, 0, T # <<>>) /\ UNCHANGED beyondAvatar
  \/ Load /\ UNCHANGED beyondAvatar
  \/ \E r \in {0, BlinkJitter - 1} : render(r) /\ UNCHANGED <<hostVars, twinVars, apiVars, effectVars, otherVars>>
  \/ Advance /\ UNCHANGED <<hostVars, twinVars, apiVars, effectVars, otherVars>>

SpecIdle == InitIdle /\ [][NextIdle]_vars

----------------------------------------------------------------------------
(* SpecBlink: the idle motion of a component that is never given an         *)
(* utterance, over enough frames for a blink to fade out                    *)

NextBlink ==
  \/ Load /\ UNCHANGED beyondAvatar
  \/ \E r \in {0, BlinkJitter - 1} :
       /\ idle.frames < MaxBlinkTicks
       /\ renderFrame(r)
       /\ UNCHANGED <<hostVars, twinVars, apiVars, effectVars, otherVars>>
  \/ Advance /\ UNCHANGED <<hostVars, twinVars, apiVars, effectVars, otherVars>>

SpecBlink == InitIdle /\ [][NextBlink]_vars

----------------------------------------------------------------------------
(* SpecTwin: two components of one kind, the same props and the same frames, *)
(* two clocks and two sources of random numbers                             *)

InitTwin ==
  \E v \in Variants, k \in 1..MaxSkew :
    /\ MountedWith(v, <<>>, 0, FALSE)
    /\ HostIdle
    /\ now = 0
    /\ idle = idleRefs(v, 0)
    /\ TwinMounted(v, k)
    /\ ApiIdle /\ EffectsDone /\ OthersHidden

NextTwin ==
  \/ \E T \in {<<>>, UtteranceNamed} :
       TwinRender(T, 0, T # <<>>) /\ UNCHANGED <<hostVars, idleVars, apiVars, effectVars, otherVars>>
  \/ TwinLoad /\ UNCHANGED <<hostVars, idleVars, apiVars, effectVars, otherVars>>
  \/ \E r1, r2 \in {0, BlinkJitter - 1} : 
       TwinFrame(r1, r2) /\ UNCHANGED <<hostVars, apiVars, effectVars, otherVars>>
  \/ \E dt \in 0..MaxFrames : 
       TwinUseFrame(dt) /\ UNCHANGED <<hostVars, idleVars, apiVars, effectVars, otherVars>>
  \/ now < BlinkFirst + MaxSkew /\ Advance /\ UNCHANGED <<hostVars, twinVars, apiVars, effectVars, otherVars>>

SpecTwin == InitTwin /\ [][NextTwin]_vars

----------------------------------------------------------------------------
(* SpecFrame: one component, its animation frames, and the commits and      *)
(* effects of React as the separate steps they are                          *)

NextFrame ==
  \/ \E T \in {<<>>, UtteranceNamed, UtteranceNumeric}, t \in 0..MaxTime, playing \in BOOLEAN :
       Commit(T, t, playing) /\ UNCHANGED <<hostVars, idleVars, twinVars, apiVars, otherVars>>
  \/ Effect /\ UNCHANGED <<hostVars, idleVars, twinVars, apiVars, otherVars>>
  \/ Load /\ UNCHANGED beyondAvatar
  \/ Frame /\ UNCHANGED beyondAvatar
  \/ \E dt \in 0..MaxFrames : useFrame(dt) /\ UNCHANGED beyondAvatar

SpecFrame == Init /\ [][NextFrame]_vars

----------------------------------------------------------------------------
(* SpecMesh: Face3DAvatar on every mesh within the bounds, among them meshes  *)
(* that lack a blendshape, that name one only loosely, and that carry a name *)
(* twice                                                                     *)

MeshNames == {"jawOpen", "mouthOpen", "Mouth"}
Meshes == UNION {[1..n -> MeshNames] : n \in 1..MaxTargets}

\* visemes whose blendshapes are jawOpen, mouthOpen and tongueOut
MeshVisemes == {"2", "14"}

InitMesh ==
  /\ mesh \in Meshes
  /\ MountedWith("Face3DAvatar", <<>>, 0, FALSE)
  /\ HostIdle /\ IdleHidden /\ TwinHidden /\ ApiIdle /\ EffectsDone
  /\ page = PageOf("part_001")
  /\ video = [hidden |-> TRUE]
  /\ raf = [hidden |-> TRUE]

\* the page starts one utterance
NextMesh ==
  \/ \E c \in MeshVisemes :
       visemes = <<>> /\ Render(<<VisemeEvent(0, c, 1)>>, 0, TRUE) /\ UNCHANGED beyondAvatar
  \/ Load /\ UNCHANGED beyondAvatar
  \/ \E dt \in 1..MaxFrames : useFrame(dt) /\ UNCHANGED beyondAvatar

SpecMesh == InitMesh /\ [][NextMesh]_vars

----------------------------------------------------------------------------
(* SpecVideo: VideoAvatar under any sequence of prop changes and events *)

InitVideo ==
  /\ \E src \in {0} \cup Sources, ap \in BOOLEAN : VideoMounted(src, ap)
  /\ MountedWith("Avatar", <<>>, 0, FALSE)
  /\ HostIdle /\ IdleHidden /\ TwinHidden /\ ApiIdle /\ EffectsDone
  /\ MeshFaceCap
  /\ page = PageOf("part_001")
  /\ raf = [hidden |-> TRUE]

beyondVideo ==
  <<avatarVars, hostVars, idleVars, twinVars, apiVars, effectVars, meshVars,
    pageVars, loopVars>>

NextVideo ==
  \/ \E src \in {0} \cup Sources, ap \in BOOLEAN : VideoProps(src, ap) /\ UNCHANGED beyondVideo
  \/ handleCanPlay /\ UNCHANGED beyondVideo
  \/ handleError /\ UNCHANGED beyondVideo
  \/ handleRetry /\ UNCHANGED beyondVideo
  \/ handlePlay /\ UNCHANGED beyondVideo
  \/ handlePause /\ UNCHANGED beyondVideo
  \/ handleEnded /\ UNCHANGED beyondVideo
  \/ toggleMute /\ UNCHANGED beyondVideo

SpecVideo == InitVideo /\ [][NextVideo]_vars

----------------------------------------------------------------------------
(* SpecLoop: the animation loop of each canvas component *)

InitLoop ==
  /\ \E c \in LoopComponents : LoopMounted(c)
  /\ MountedWith("Avatar", <<>>, 0, FALSE)
  /\ HostIdle /\ IdleHidden /\ TwinHidden /\ ApiIdle /\ EffectsDone
  /\ MeshFaceCap
  /\ page = PageOf("part_001")
  /\ video = [hidden |-> TRUE]

beyondLoop ==
  <<avatarVars, hostVars, idleVars, twinVars, apiVars, effectVars, meshVars,
    pageVars, videoVars>>

NextLoop ==
  \/ LoopFrame /\ UNCHANGED beyondLoop
  \/ LoopDep /\ UNCHANGED beyondLoop
  \/ LoopRender /\ UNCHANGED beyondLoop
  \/ CameraFallback /\ UNCHANGED beyondLoop
  \/ LoopUnmount /\ UNCHANGED beyondLoop

SpecLoop == InitLoop /\ [][NextLoop]_vars

----------------------------------------------------------------------------
(* SpecApi: the route handling the requests of one run *)

InitApi ==
  /\ MountedWith("Avatar", <<>>, 0, FALSE)
  /\ HostIdle
  /\ IdleHidden
  /\ TwinHidden
  /\ ApiIdle
  /\ EffectsDone
  /\ OthersHidden

NextApi ==
  \/ \E body \in Bodies : Request(body) /\ UNCHANGED <<avatarVars, hostVars, idleVars, twinVars, effectVars, otherVars>>
  \/ \E i \in 1..Len(api.handling) :
       Respond(i) /\ UNCHANGED <<avatarVars, hostVars, idleVars, twinVars, effectVars, otherVars>>

SpecApi == InitApi /\ [][NextApi]_vars

----------------------------------------------------------------------------
(* Properties *)

\* the target the next frame's interpolation reads: the target ref of a canvas
\* component, the weights useFrame derives from the props in Face3DAvatar
TargetRead ==
  IF variant = "Face3DAvatar"
    THEN targetWeights3D(visemes, currentTime, isPlaying)
    ELSE target

\* the silence code of the component's vocabulary
SilenceCode == IF variant = "Face3DAvatar" THEN "0" ELSE "sil"

\* the indices of the events of T whose interval [time, time + duration) holds t
Containing(T, t) ==
  {i \in 1..Len(T) : T[i].time <= t /\ t < T[i].time + T[i].duration}

\* the codes the component's mapping table defines
Known(code) ==
  IF variant = "Face3DAvatar" THEN code \in VisemeIds
  ELSE Table(variant, code) # undefined

\* the parameter names (or morph target indices) of the component
Slots == IF variant = "Face3DAvatar" THEN 1..numTargets ELSE Params(variant)

\* the blend factor of a frame of dt 60ths of a second, in hundredths
Factor(dt) ==
  CASE variant = "Face3DAvatar" -> factor3D(dt)
    [] variant = "Avatar" -> 100
    [] OTHER -> smoothFactor(variant)

\* x lies in the closed interval between a and b
Between(a, x, b) ==
  /\ IsNumber(a) /\ IsNumber(x) /\ IsNumber(b)
  /\ (a <= x /\ x <= b) \/ (b <= x /\ x <= a)

\* |x - b| < |a - b| on numbers
Closer(x, a, b) ==
  /\ IsNumber(a) /\ IsNumber(x) /\ IsNumber(b)
  /\ Abs(x - b) < Abs(a - b)

\* a step of factor f from a towards b is at least half a hundredth, the
\* precision of the weights
Resolvable(a, b, f) ==
  IsNumber(a) /\ IsNumber(b) => 2 * Abs(b - a) * f >= 100

\* two parameter sets agree within two hundredths, the rounding of two frames
Agree(x, y) ==
  \A p \in DOMAIN x :
    IsNumber(x[p]) /\ IsNumber(y[p]) /\ Abs(x[p] - y[p]) <= 2

----------------------------------------------------------------------------
\* C1: while playing a non-empty timeline, a currentTime that no event's
\* interval [time, time + duration) holds - a gap between events, or a time
\* past the end of the last event - resolves to SILENCE in every variant, the
\* getCurrentViseme of Face3DAvatar included.
C1_GapResolvesToSilence ==
  ( /\ last.op = "Render"
    /\ isPlaying
    /\ visemes # <<>>
    /\ Containing(visemes, currentTime) = {} )
  => currentViseme = SilenceCode

\* C3: while playing, when some event's interval holds currentTime the resolver
\* returns the viseme of the containing event that is earliest in sequence
\* order; the upper bound is exclusive, so an event is not the active one at
\* currentTime = time + duration.
C3_EarliestContainingEvent ==
  ( /\ last.op = "Render"
    /\ isPlaying
    /\ Containing(visemes, currentTime) # {} )
  => currentViseme = visemes[SetMin(Containing(visemes, currentTime))].viseme

----------------------------------------------------------------------------
\* C2: when isPlaying is false or the timeline is empty the resolved viseme is
\* SILENCE whatever currentTime is: 'sil' in the canvas components, and in
\* Face3DAvatar every target morph weight a frame computes is 0.
C2_IdleIsSilence ==
  (~isPlaying \/ visemes = <<>>)
  => IF variant = "Face3DAvatar"
       THEN last.op = "Tick" => \A i \in 1..numTargets : target[i] = 0
       ELSE currentViseme = "sil"

\* C2 happens: a frame of Face3DAvatar runs while not playing, with a timeline
\* whose event at currentTime carries weights, from non-zero current weights
C2_Witness ==
  /\ variant = "Face3DAvatar"
  /\ last.op = "Tick"
  /\ ~isPlaying
  /\ targetWeights3D(visemes, currentTime, TRUE) # SilenceTarget(variant)
  /\ last.cur # SilenceTarget(variant)

\* C4: a resolved code that the mapping table does not define makes the
\* interpolation target exactly the table's SILENCE entry, in every variant.
C4_UnknownCodeTargetsSilence ==
  ( /\ isPlaying
    /\ visemes # <<>>
    /\ ~Known(IF variant = "Face3DAvatar"
                THEN getCurrentViseme(visemes, currentTime)
                ELSE activeViseme(visemes, currentTime))
    /\ variant = "Face3DAvatar" => last.op = "Tick" )
  => target = SilenceTarget(variant)

\* C5: the current parameter set is always complete: every parameter the
\* renderer reads has a defined numeric value, never undefined and never NaN,
\* also after frames that ran while an unknown code was resolved.
C5_CurrentIsComplete ==
  (variant = "Face3DAvatar" => loaded)
  => /\ DOMAIN current = Slots
     /\ \A p \in Slots : IsNumber(current[p])

\* C6: after every frame, each parameter's new current value lies in the
\* closed interval between its previous current value and the target the
\* frame read.
C6_NoOvershoot ==
  last.op = "Tick"
  => \A p \in Slots : Between(last.cur[p], current[p], target[p])

\* C7: a frame with elapsed time > 0 brings every parameter that differs from
\* its target strictly closer to the target (a step below the precision of the
\* weights excepted), so that current converges to a fixed target.
C7_StrictlyCloser ==
  (last.op = "Tick" /\ last.dt > 0)
  => \A p \in Slots :
       (last.cur[p] # target[p] /\ Resolvable(last.cur[p], target[p], Factor(last.dt)))
       => Closer(current[p], last.cur[p], target[p])

\* C8: a frame that starts with current equal to the target leaves current
\* unchanged, for any elapsed time >= 0.
C8_TargetIsFixedPoint ==
  (last.op = "Tick" /\ last.cur = target) => current = last.cur

\* C8 happens: an interpolating component runs a frame at its target while a
\* timeline is installed
C8_Witness ==
  /\ last.op = "Tick"
  /\ last.cur = target
  /\ variant \notin {"Avatar"}
  /\ visemes # <<>>

\* C9: the blend is determined by elapsed time: a frame of elapsed time 0
\* leaves current unchanged, and two frames of dt1 and dt2 towards a fixed
\* target give what one frame of dt1 + dt2 gives, in every variant.
C9_BlendByElapsedTime ==
  /\ (last.op = "Tick" /\ last.dt = 0) => current = last.cur
  /\ (loaded /\ last.op # "Mount")
     => \A dt1, dt2 \in 1..MaxFrames :
          Agree(tick(variant, tick(variant, current, TargetRead, dt1), TargetRead, dt2),
                tick(variant, current, TargetRead, dt1 + dt2))

\* C10: when isPlaying goes from true to false, and when the page delivers a
\* new timeline, the target the next frame reads is SILENCE.
C10_ResetOnStopOrNewTimeline ==
  [][ ((isPlaying /\ ~isPlaying') \/ visemes' # visemes)
      => TargetRead' = SilenceTarget(variant) ]_vars

----------------------------------------------------------------------------
\* C11: the transition of isPlaying to false, and a change of the timeline,
\* modify only the target: the displayed current parameters are the same right
\* after the transition and return to rest only through later frames, so the
\* displayed mouth never jumps to another shape in one step, in any variant.
C11_TransitionKeepsCurrent ==
  [][ ((isPlaying /\ ~isPlaying') \/ visemes' # visemes)
      => current' = current ]_vars

\* the 'ended' event of some Audio is handled in this step
AudioEnds ==
  \E i \in 1..Len(audios) :
    audios[i].state = "playing" /\ audios'[i].state = "ended"

\* the timeline of a new utterance is delivered in this step
Delivered == Len(audios') > Len(audios)

\* C17: when the audio of an utterance ends the page sets isPlaying to false,
\* currentTime to 0 and the timeline to the empty list; from then until a new
\* utterance is delivered the timeline stays empty and the component's
\* resolved viseme is SILENCE.
C17_EndDiscardsTimeline ==
  [][ /\ AudioEnds
          => /\ ~isPlaying'
             /\ currentTime' = 0
             /\ visemes' = <<>>
             /\ currentViseme' = SilenceCode
      /\ (visemes = <<>> /\ ~Delivered)
          => /\ visemes' = <<>>
             /\ currentViseme' = SilenceCode ]_vars

\* C17 happens: an Audio has ended and, before any new delivery, the play event
\* of a later Audio has set isPlaying again while the timeline is still empty
C17_Witness ==
  /\ \E i \in 1..Len(audios) : audios[i].state = "ended"
  /\ visemes = <<>>
  /\ isPlaying
  /\ currentViseme = SilenceCode

\* C18: the complete timeline of an utterance is installed before isPlaying
\* becomes true for it, and stays installed, unmodified, from the utterance's
\* play event to its end.
C18_TimelineStableWhilePlaying ==
  \A i \in 1..Len(audios) :
    audios[i].state \in {"started", "playing"} => visemes = audios[i].visemes

----------------------------------------------------------------------------
\* this step is one call of render
TickStep == idle'.frames = idle.frames + 1

\* C12: every frame advances the idle state - the blink is updated from the
\* blink state and the clock alone, and microPhase grows by the same fixed
\* step - whatever isPlaying, the timeline and the active viseme are; idle
\* motion goes on while nothing plays and with an empty timeline.
C12_IdleAdvancesEveryTick ==
  [][ TickStep
      => /\ variant = "VideoStyleAvatar" => idle'.phase = idle.phase + PhaseStep
         /\ IF now >= idle.nextBlink
              THEN /\ idle'.value = 100 - blinkDecay(variant)
                   /\ idle'.nextBlink > now
              ELSE /\ idle'.value = Max(0, idle.value - blinkDecay(variant))
                   /\ idle'.nextBlink = idle.nextBlink ]_vars

\* C12 happens: frames run while nothing plays and the timeline is empty, a
\* blink is under way and, in VideoStyleAvatar, microPhase has advanced
C12_Witness ==
  /\ variant = "VideoStyleAvatar"
  /\ last.op = "Tick"
  /\ ~isPlaying
  /\ visemes = <<>>
  /\ idle.phase = MaxTicks * PhaseStep
  /\ idle.value > 0

\* C13: in every reachable state the blink value is within [0, 1].
C13_BlinkInRange ==
  variant \in IdleVariants => (0 <= idle.value /\ idle.value <= 100)

\* C13 happens: a blink was triggered and has decayed back to 0
C13_Witness ==
  /\ variant \in IdleVariants
  /\ idle.blinkAt >= 0
  /\ idle.value = 0

\* C14: on a frame where now >= nextBlink the blink value is set to 1 and is 1
\* when the frame draws the eyes; the fixed decay is applied only on frames
\* where now < nextBlink.
C14_BlinkIsOneWhenTriggered ==
  [][ TickStep
      => IF now >= idle.nextBlink
           THEN idle'.value = 100
           ELSE idle'.value = Max(0, idle.value - blinkDecay(variant)) ]_vars

\* C15: a blink triggered at time now reschedules nextBlink within
\* [now + 2500 ms, now + 5500 ms]; after every frame nextBlink is greater than
\* that frame's now, and two blinks of one component are at least 2500 ms apart.
C15_BlinkRescheduled ==
  [][ TickStep
      => /\ now >= idle.nextBlink
             => /\ idle'.nextBlink >= now + BlinkGap
                /\ idle'.nextBlink <= now + BlinkGap + BlinkJitter
                /\ idle.blinkAt >= 0 => now - idle.blinkAt >= BlinkGap
         /\ idle'.nextBlink > now ]_vars

\* C15 happens: the frame that produced this state triggered the second blink
\* of the component
C15_Witness ==
  /\ variant \in IdleVariants
  /\ last.op = "Tick"
  /\ idle.blinks = 2
  /\ idle.blinkAt = now
  /\ idle.value = 100 - blinkDecay(variant)

----------------------------------------------------------------------------
----------------------------------------------------------------------------
\* the body's text is a non-empty string
HasText(body) ==
  /\ body.json
  /\ textOf(body.value).type = "string"
  /\ textOf(body.value).value # ""

\* C19: POST /api/text-to-speech returns exactly one response per request:
\* status 500 when the body cannot be parsed; status 400 with an error when
\* the body's text is missing, empty or not a string; otherwise status 200
\* with a body that echoes the text and carries audioUrl and visemes.
C19_StatusByBody ==
  /\ Len(api.handling) + Len(api.log) <= MaxRequests
  /\ \A i \in 1..Len(api.log) :
       LET body == api.log[i].body
           response == api.log[i].response
       IN CASE ~body.json -> response.status = 500
            [] body.json /\ ~HasText(body) ->
                 response.status = 400 /\ "error" \in response.keys
            [] OTHER ->
                 /\ response.status = 200
                 /\ response.text = textOf(body.value)
                 /\ {"text", "audioUrl", "visemes"} \subseteq response.keys

----------------------------------------------------------------------------
\* the target the component's own resolver and mapping derive from its props
targetOfProps ==
  IF variant = "Face3DAvatar"
    THEN targetWeights3D(visemes, currentTime, isPlaying)
    ELSE targetOf(variant, visemes, currentTime, isPlaying)

\* C20: the interpolation of a tick uses the target derived from that tick's
\* (timeline, currentTime, isPlaying): after every tick, the target the tick
\* interpolated toward is the one the resolver and the mapping give for the
\* props the component holds at that tick, never the target of earlier props.
C20_TickUsesTargetOfItsProps ==
  (last.op = "Tick" /\ loaded) => target = targetOfProps

----------------------------------------------------------------------------
\* the blendshape names that VISEME_TO_BLENDSHAPE asks for in SpecMesh
BlendNames == {"jawOpen", "mouthOpen", "tongueOut"}

\* the morph targets (positions from 1) named exactly name
ExactTargets(name) == {i \in 1..Len(mesh) : mesh[i] = name}

\* one name holds the other when both are put in lower case
LooseMatch(a, b) ==
  LET la == toLowerCase(Chars(a))
      lb == toLowerCase(Chars(b))
  IN includes(la, lb) \/ includes(lb, la)

LooseTargets(name) == {i \in 1..Len(mesh) : LooseMatch(mesh[i], name)}

\* C22: findMorphTargetIndex returns the index of a morph target named exactly
\* as requested whenever one exists; only when none exists does it return the
\* index of a target matched case-insensitively by substring; it returns -1
\* when (and only when) no target name matches.
C22_ExactThenLoose ==
  \A name \in BlendNames :
    LET idx == findMorphTargetIndex(name)
    IN /\ ExactTargets(name) # {} => idx + 1 \in ExactTargets(name)
       /\ (ExactTargets(name) = {} /\ LooseTargets(name) # {}) =>
            idx + 1 \in LooseTargets(name)
       /\ (ExactTargets(name) = {} /\ LooseTargets(name) = {}) <=> idx = -1

\* a tick has resolved mouthOpen on a mesh whose earlier target "Mouth" matches
\* it loosely and whose later target matches it exactly, and on a mesh where
\* "Mouth" alone matches it
C22_Witness ==
  /\ last.op = "Tick"
  /\ isPlaying
  /\ currentViseme = "2"
  /\ \/ mesh = <<"Mouth", "mouthOpen">> /\ target = <<0, 50>>
     \/ mesh = <<"jawOpen", "Mouth">> /\ target = <<35, 50>>

\* the blend shapes of the viseme that the tick resolved
activeShapes == IF isPlaying THEN blendShapes(getCurrentViseme(visemes, currentTime)) ELSE <<>>

\* the shapes (positions in activeShapes) whose name resolves to weight i
shapesFor(i) ==
  {k \in 1..Len(activeShapes) : findMorphTargetIndex(activeShapes[k].name) = i - 1}

\* C21: a blendshape name that resolves to no morph target (-1) or to an index
\* outside the weight array is skipped: after the tick targetWeights has its
\* length unchanged, every weight named by another shape of the viseme is set
\* (the last shape in table order wins), every other weight is 0, and every
\* morph weight of the mesh is interpolated from its value before the tick.
C21_UnresolvedShapeSkipped ==
  (last.op = "Tick" /\ variant = "Face3DAvatar") =>
    /\ Len(target) = numTargets
    /\ \A i \in 1..numTargets :
         target[i] = IF shapesFor(i) = {} THEN 0
                     ELSE activeShapes[SetMax(shapesFor(i))].weight
    /\ Len(current) = numInfluences
    /\ \A i \in 1..numInfluences :
         current[i] = lerp(OrZero(At(last.cur, i)), OrZero(At(target, i)), factor3D(last.dt))

\* a tick on a mesh that lacks tongueOut (-1) and whose mouthOpen has an index
\* beyond the weight array, while jawOpen is set
C21_Witness ==
  /\ last.op = "Tick"
  /\ isPlaying
  /\ currentViseme = "14"
  /\ mesh = <<"jawOpen", "jawOpen", "mouthOpen">>
  /\ findMorphTargetIndex("tongueOut") = -1
  /\ findMorphTargetIndex("mouthOpen") >= numTargets
  /\ target = <<0, 10>>
  /\ current[2] > 0

----------------------------------------------------------------------------
\* the number of frames, the frame of the trigger included, after which the
\* claim has the blink value back at 0
blinkTicks(v) == IF v = "VideoStyleAvatar" THEN 7 ELSE 9

\* the values of a blink that fades by the fixed amount and is 0 from frame
\* blinkTicks on
blinkLevels(v) == {Max(0, 100 - j * blinkDecay(v)) : j \in 1..blinkTicks(v)}

\* C23: after a blink triggers, and while no further trigger occurs, the blink
\* value goes down by the same fixed amount on every frame (0.15 in
\* VideoStyleAvatar, 0.12 in ImageBasedAvatar, stopping at 0), is 0 by the 7th
\* resp. 9th frame, and stays 0 until the next trigger.
C23_BlinkFadesOut ==
  [][ TickStep
      => /\ now < idle.nextBlink
              => idle'.value = Max(0, idle.value - blinkDecay(variant))
         /\ idle'.value \in blinkLevels(variant)
         /\ 0 \in blinkLevels(variant) ]_vars

\* ImageBasedAvatar has blinked once, in its first frame, and after nine more
\* frames the value is 0
C23_Witness ==
  /\ variant = "ImageBasedAvatar"
  /\ idle.blinks = 1
  /\ idle.frames = MaxBlinkTicks
  /\ idle.value = 0
  /\ now = idle.blinkAt

----------------------------------------------------------------------------
\* the Audio elements that are playing: their 'play' event has fired, and
\* neither 'ended' nor a rejection of play() has followed
Sounding == {i \in 1..Len(audios) : audios[i].state \in {"started", "playing"}}

\* C24: events of an earlier utterance's audio never disturb a later one:
\* whenever some audio is playing, isPlaying is true and the installed timeline
\* is that of the most recently started utterance, so an 'ended' event of an
\* earlier audio has not stopped or cleared a later utterance that still plays.
C24_LaterUtteranceUndisturbed ==
  Sounding # {} =>
    /\ isPlaying
    /\ visemes = audios[SetMax(Sounding)].visemes

----------------------------------------------------------------------------
\* this step is a try to send
SubmitStep == page'.attempts = page.attempts + 1

C26_OneReplyPerSubmit ==
  /\ \A i \in 1..Len(messages) :
       messages[i].role = IF i % 2 = 1 THEN "user" ELSE "assistant"
  /\ request = "idle" => Len(messages) % 2 = 0

----------------------------------------------------------------------------
\* the keys of the canvas components' mapping tables
NamedCodes == {"sil", "PP", "FF", "TH", "DD", "kk", "CH", "SS", "nn", "RR",
               "aa", "E", "I", "O", "U"}

\* the values of parameter p over all entries of the table of component v
tableValues(v, p) ==
  {Table(v, c)[p] : c \in {k \in NamedCodes : Table(v, k) # undefined}}

\* C27: for every component and every parameter the current value stays, in
\* every reachable state, within the closed range spanned by the parameter's
\* values over all entries of the component's mapping table; in Face3DAvatar
\* every morph weight stays within [0, 1].
C27_CurrentWithinTableRange ==
  IF variant = "Face3DAvatar"
    THEN \A i \in DOMAIN current : IsNumber(current[i]) /\ 0 <= current[i] /\ current[i] <= 100
    ELSE \A p \in Params(variant) :
           /\ IsNumber(current[p])
           /\ SetMin(tableValues(variant, p)) <= current[p]
           /\ current[p] <= SetMax(tableValues(variant, p))

----------------------------------------------------------------------------
\* each event ends where the next one starts
Gapless(T) == \A i \in 1..(Len(T) - 1) : T[i].time + T[i].duration = T[i + 1].time

\* t lies in [first.time, last.time + last.duration)
Covered(T, t) ==
  /\ T # <<>>
  /\ T[1].time <= t
  /\ t < T[Len(T)].time + T[Len(T)].duration

\* the events (positions) that have started at t
Started(T, t) == {i \in 1..Len(T) : T[i].time <= t}

\* C28: on a timeline that is sorted, non-overlapping and gapless, for every
\* currentTime in [first.time, last.time + last.duration) the resolver of
\* Face3DAvatar (the latest event with time <= currentTime) selects the same
\* event as the interval-containment resolver of the canvas components.
C28_ResolversAgreeOnGapless ==
  (Gapless(visemes) /\ Covered(visemes, currentTime))
  => /\ getCurrentViseme(visemes, currentTime) = activeViseme(visemes, currentTime)
     /\ Containing(visemes, currentTime) # {}
     /\ SetMax(Started(visemes, currentTime)) = SetMin(Containing(visemes, currentTime))

\* a component has resolved a time in the second of two adjoining events with
\* different visemes
C28_Witness ==
  /\ last.op = "Render"
  /\ Len(visemes) = 2
  /\ Gapless(visemes)
  /\ visemes[1].viseme # visemes[2].viseme
  /\ currentTime >= visemes[2].time
  /\ Covered(visemes, currentTime)

----------------------------------------------------------------------------
----------------------------------------------------------------------------
\* C30: a mounted avatar component has at most one animation-frame callback
\* pending at any time, whatever props change, re-renders and image loads
\* happen, so a frame does at most one interpolation tick; after the unmount
\* no callback is pending and no step does a tick.
C30_OneLoopPerComponent ==
  /\ [](Cardinality(raf.pending) <= 1)
  /\ [](raf.last = "frame" => raf.ticks <= 1)
  /\ [](~raf.mounted => raf.pending = {})
  /\ [][~raf.mounted => raf'.ticks = 0]_vars

\* a loop that was restarted has run a frame with its one callback, which
\* ticked and is pending again
C30_Witness ==
  /\ raf.mounted
  /\ raf.restarts > 0
  /\ raf.last = "frame"
  /\ raf.ticks = 1
  /\ Cardinality(raf.pending) = 1

====
